---- MODULE Spec2Model ----
(***************************************************************************)
(* SmartRate (tenderquote): the rate catalog (sorData) of the App          *)
(* component and the tender processor that builds a quotation from pasted  *)
(* text with two external calls, the extractor (parseBulkItems) and the    *)
(* matcher (findBestMatchingItem).                                         *)
(*                                                                         *)
(* The repository holds two single-file builds of the application with     *)
(* their own handleProcess: src/index.tsx ("index") and                    *)
(* src/unnamed/part_001 ("part_001").  The variable `variant` says which   *)
(* build is running; it never changes.  The modular build, src/App.tsx     *)
(* ("App"), is mounted by src/unnamed/part_002 inside React.StrictMode;    *)
(* its catalog operations and its startup are the specification            *)
(* SpecCatalog.                                                            *)
(*                                                                         *)
(* Encoding of JavaScript values:                                          *)
(*   - an optional value (undefined / a value) is the empty set or a       *)
(*     singleton: None == {}, Some(x) == {x};                              *)
(*   - a JSON object is a record; a property the object does not have is   *)
(*     a field outside the record's DOMAIN;                                *)
(*   - a string that the code trims or lower-cases is a sequence of        *)
(*     one-character strings;                                              *)
(*   - numbers are integers;                                               *)
(*   - a JSON text is the array of its element texts, an element text the  *)
(*     record of its property literals, a number literal a digit string.   *)
(***************************************************************************)
EXTENDS Integers, Sequences, FiniteSets, TLC

\* ------------------------------------------------------------------ bounds
\* most records the catalog holds (guard of the add action)
MaxCatalog == 2
\* most candidates one extractor answer holds
MaxItems == 2
\* largest creation timestamp (Date.now()) a record gets
MaxClock == 2

\* --------------------------------------------------------------- JS values
None == {}

Some(x) == {x}

The(o) == CHOOSE x \in o : TRUE

\* String.prototype.toLowerCase, one character
LowerChar(c) ==
  CASE c = "P" -> "p"
    [] c = "R" -> "r"
    [] OTHER -> c

\* String.prototype.toLowerCase
ToLowerCase(s) == [k \in DOMAIN s |-> LowerChar(s[k])]

IsSpace(c) == c = " "

RECURSIVE TrimStart(_)
TrimStart(s) ==
  IF s = <<>> THEN <<>>
  ELSE IF IsSpace(Head(s)) THEN TrimStart(Tail(s)) ELSE s

RECURSIVE TrimEnd(_)
TrimEnd(s) ==
  IF s = <<>> THEN <<>>
  ELSE IF IsSpace(s[Len(s)]) THEN TrimEnd(SubSeq(s, 1, Len(s) - 1)) ELSE s

\* String.prototype.trim
Trim(s) == TrimEnd(TrimStart(s))

DigitValue(c) ==
  CASE c = "0" -> 0
    [] c = "1" -> 1
    [] c = "2" -> 2
    [] c = "3" -> 3
    [] c = "4" -> 4
    [] c = "5" -> 5
    [] c = "6" -> 6
    [] c = "7" -> 7
    [] c = "8" -> 8
    [] c = "9" -> 9

RECURSIVE ParseDigits(_, _)
ParseDigits(s, acc) ==
  IF s = <<>> THEN acc
  ELSE ParseDigits(Tail(s), 10 * acc + DigitValue(Head(s)))

IsDigit(c) == c \in {"0", "1", "2", "3", "4", "5", "6", "7", "8", "9"}

\* the longest prefix of s that consists of digits
RECURSIVE DigitPrefix(_)
DigitPrefix(s) ==
  IF s = <<>> \/ ~IsDigit(Head(s)) THEN <<>>
  ELSE <<Head(s)>> \o DigitPrefix(Tail(s))

\* parseFloat: the number that the longest numeric prefix of the text
\* denotes, whatever follows it ("3x" gives 3).  A text without such a
\* prefix gives NaN; no input of the model is such a text, and the operator
\* is not defined for it.
ParseFloat(s) ==
  LET negative == s # <<>> /\ Head(s) = "-"
      digits == DigitPrefix(IF negative THEN Tail(s) ELSE s)
  IN CASE digits # <<>> ->
       IF negative THEN 0 - ParseDigits(digits, 0) ELSE ParseDigits(digits, 0)

\* ------------------------------------------------------------------- JSON
DigitChar(d) ==
  CASE d = 0 -> "0"
    [] d = 1 -> "1"
    [] d = 2 -> "2"
    [] d = 3 -> "3"
    [] d = 4 -> "4"
    [] d = 5 -> "5"
    [] d = 6 -> "6"
    [] d = 7 -> "7"
    [] d = 8 -> "8"
    [] d = 9 -> "9"

\* the decimal digits of a natural number
RECURSIVE DigitsOf(_)
DigitsOf(n) ==
  IF n < 10 THEN <<DigitChar(n)>>
  ELSE Append(DigitsOf(n \div 10), DigitChar(n % 10))

\* JSON.stringify of a number
NumberToString(n) ==
  IF n < 0 THEN <<"-">> \o DigitsOf(0 - n) ELSE DigitsOf(n)

\* JSON.stringify of a string: the quoted string
StringLiteral(v) == [type |-> "string", value |-> v]

NumberLiteral(n) == [type |-> "number", digits |-> NumberToString(n)]

NullLiteral == [type |-> "null"]

\* JSON.stringify of one SORItem
StringifyItem(r) ==
  [id |-> StringLiteral(r.id), name |-> StringLiteral(r.name),
   unit |-> StringLiteral(r.unit), rate |-> NumberLiteral(r.rate),
   scopeOfWork |-> StringLiteral(r.scopeOfWork),
   source |-> StringLiteral(r.source),
   timestamp |-> NumberLiteral(r.timestamp)]

\* JSON.stringify(sorData)
Stringify(sor) ==
  [kind |-> "array", elems |-> [k \in DOMAIN sor |-> StringifyItem(sor[k])]]

\* the value of one property literal
ParseLiteral(l) ==
  IF l.type = "number" THEN ParseFloat(l.digits) ELSE l.value

\* the value of one element text: null, or the object of its properties
ParseElement(e) ==
  IF "type" \in DOMAIN e THEN [isNull |-> TRUE]
  ELSE [key \in DOMAIN e |-> ParseLiteral(e[key])]

\* a JavaScript array with the elements elems
ArrayValue(elems) == [isArray |-> TRUE, elems |-> elems]

\* JSON.parse(text): it throws a SyntaxError, or gives an array, or gives a
\* value that is not an array (here the object of the text {})
JsonParse(text) ==
  CASE text.kind = "unparseable" -> [throws |-> TRUE]
    [] text.kind = "object" -> [throws |-> FALSE, value |-> [isArray |-> FALSE]]
    [] text.kind = "array" ->
         [throws |-> FALSE,
          value |-> ArrayValue([k \in DOMAIN text.elems |->
                                  ParseElement(text.elems[k])])]

\* ------------------------------------------------------------ input domains
\* what the user can type into the tender textarea
Texts == { <<>>, <<" ", " ">>, <<" ", "a">> }

\* what the user can submit in the single-rate form (formData)
Forms ==
  { [name |-> <<"P", "i">>, unit |-> "m", rate |-> <<"3">>,
     scopeOfWork |-> "gi pipe", source |-> "dsr"],
    [name |-> <<"r", "o">>, unit |-> "kg", rate |-> <<"1", "2">>,
     scopeOfWork |-> "rod", source |-> ""] }

\* one element of the array the extractor's JSON parses to: an item record
\* (quantity and estimatedRate may be missing), or the JSON value null
NullJson == [isNull |-> TRUE]

Candidates ==
  { [name |-> <<"P", "i">>, quantity |-> 2, requestedScope |-> "gi pipe",
     estimatedRate |-> 5],
    [name |-> <<"p", "i">>, requestedScope |-> "pipe"],
    [name |-> <<"r", "o">>, quantity |-> 0, requestedScope |-> "rod"],
    [name |-> <<"R", "o">>, quantity |-> 0 - 2, requestedScope |-> "rod",
     estimatedRate |-> 1],
    NullJson }

RECURSIVE SeqsUpTo(_, _)
SeqsUpTo(S, n) ==
  IF n = 0 THEN { <<>> }
  ELSE LET shorter == SeqsUpTo(S, n - 1)
       IN shorter \cup { Append(s, x) : s \in { t \in shorter : Len(t) = n - 1 }, x \in S }

\* the ways one extractor request (ai.models.generateContent) can end
ExtractorOutcomes ==
  { [kind |-> "throws"], [kind |-> "emptyText"], [kind |-> "unparseable"],
    [kind |-> "nonList"] }
  \cup { [kind |-> "list", list |-> l] : l \in SeqsUpTo(Candidates, MaxItems) }

\* the ways one matcher request can end, when the identifiers it may name
\* are ids; matchedId is None for JSON null.  Identifiers are integers that
\* stand for UUID strings; 0 stands for a (non-empty) string that is the
\* identifier of no record.
MatcherOutcomes(ids) ==
  { [kind |-> "throws"], [kind |-> "emptyText"], [kind |-> "unparseable"],
    [kind |-> "jsonNull"], [kind |-> "object", matchedId |-> None] }
  \cup { [kind |-> "object", matchedId |-> Some(x)] : x \in ids }

\* -------------------------------------------------------------------- state
VARIABLES
  variant,      \* which build of the application runs
  view,         \* App: useState 'database' | 'tender'
  sorData,      \* App: the catalog, a sequence of SORItem
  isFormOpen,   \* App: the rate form modal is shown
  editingItem,  \* App: None, or Some(record being edited)
  inputText,    \* TenderProcessor: textarea content
  items,        \* TenderProcessor: the quotation shown
  processing,   \* TenderProcessor: a build is running
  build,        \* the running handleProcess call: its position and locals
  storage,      \* localStorage under the catalog's key: None, or Some(text)
  phase,        \* App: "mounted" (first render committed, effects not yet
                \* run), "loaded" (mount effects run, their state updates
                \* queued), "running", or "crashed" (an exception unmounted
                \* the tree)
  pending,      \* App: the values of the queued setSorData calls, in order
  lastOp,       \* history: the catalog operation the last step performed
  rateForm,     \* RateForm: its useState values and its running handleScrape
  twin          \* a second handleProcess call, run beside build on the same
                \* answers (used by the comparison of two builds only)

vars == <<variant, view, sorData, isFormOpen, editingItem,
          inputText, items, processing, build,
          storage, phase, pending, lastOp, rateForm, twin>>

storeVars == <<storage, phase, pending, lastOp>>

appVars == <<view, sorData, isFormOpen, editingItem,
             storage, phase, pending, lastOp, rateForm, twin>>

tenderVars == <<inputText, items, processing, build>>

\* no handleProcess call is running
IdleBuild ==
  [pc |-> "idle", text |-> <<>>, sorData |-> <<>>, parsed |-> <<>>, i |-> 0,
   results |-> <<>>,
   \* history, for the properties: the catalog when the call began, how the
   \* extractor request ended, how the last matcher request ended and the
   \* identifier it gave, the lists sent to the matcher, the requests made
   startCatalog |-> <<>>, outcome |-> "none", answer |-> "none",
   matchedId |-> None, sent |-> {}, extractorCalls |-> 0, matcherCalls |-> 0]

\* the last step was no catalog operation
NoOp == [op |-> "none"]

\* RateForm as it mounts: mode 'single', isProcessing false, bulkText '',
\* previewItems [], and no handleScrape call waiting for its request
NewRateForm ==
  [mode |-> "single", isProcessing |-> FALSE, bulkText |-> <<>>,
   previewItems |-> ArrayValue(<<>>), scrape |-> "idle"]

\* no second call is run
NoTwin == [variant |-> "none", b |-> IdleBuild]

\* variant of SaveEffect: the effect writes the catalog of the render before
SaveEffectStale(sor) == storage' = Some(Stringify(sorData))

\* the save effect: localStorage.setItem(key, JSON.stringify(sorData))
SaveEffect(sor) == storage' = Some(Stringify(sor))

\* The two single-file builds after startup with nothing stored: the load
\* effect found nothing, the save effect wrote the empty catalog.
Init ==
  /\ variant \in {"index", "part_001"}
  /\ view = "database"
  /\ sorData = <<>>
  /\ isFormOpen = FALSE
  /\ editingItem = None
  /\ inputText = <<>>
  /\ items = <<>>
  /\ processing = FALSE
  /\ build = IdleBuild
  /\ storage = Some(Stringify(<<>>))
  /\ phase = "running"
  /\ pending = <<>>
  /\ lastOp = NoOp
  /\ rateForm = NewRateForm
  /\ twin = NoTwin

\* ------------------------------------------------------------ App: catalog
\* the identifiers of the objects of a list
IdsOf(s) == { s[k].id : k \in DOMAIN s }

\* crypto.randomUUID(): an identifier that was never handed out.  Identifiers
\* are opaque and the code only compares a record's identifier with a
\* record's (a tender item's is a React key), so the identifier is the least
\* integer that no object of the same kind in the state holds (used is the
\* set of those identifiers).
RandomUUID(used) ==
  CHOOSE n \in 1..(Cardinality(used) + 1) :
    n \notin used /\ \A m \in 1..(n - 1) : m \in used

\* the greatest element of a non-empty set of integers
Max(S) == CHOOSE x \in S : \A y \in S : y <= x

\* Date.now(): the clock does not run backwards, so the value is not less
\* than any timestamp read before (seen is the set of timestamps the state
\* holds); only the order of timestamps matters
DateNow(seen) ==
  LET last == Max(seen \cup {1})
  IN { t \in {last, last + 1} : t <= MaxClock }

\* onSubmit({ ...formData, rate: parseFloat(formData.rate) })
SubmittedItem(f) ==
  [name |-> f.name, unit |-> f.unit, rate |-> ParseFloat(f.rate),
   scopeOfWork |-> f.scopeOfWork, source |-> f.source]

\* { ...item, id: r.id, timestamp: r.timestamp }
WithIdentity(item, id, timestamp) ==
  [id |-> id, name |-> item.name, unit |-> item.unit, rate |-> item.rate,
   scopeOfWork |-> item.scopeOfWork, source |-> item.source,
   timestamp |-> timestamp]

\* variant of UpdateRate: the record is looked up by its name
UpdateRateByName(prev, editing, item) ==
  [k \in DOMAIN prev |->
     IF prev[k].name = editing.name
     THEN WithIdentity(item, prev[k].id, prev[k].timestamp)
     ELSE prev[k]]

\* prev.map(r => r.id === editingItem.id ? { ...item, id, timestamp } : r)
UpdateRate(prev, editing, item) ==
  [k \in DOMAIN prev |->
     IF prev[k].id = editing.id
     THEN WithIdentity(item, prev[k].id, prev[k].timestamp)
     ELSE prev[k]]

\* variant of AddRate: [{ ...item, id, timestamp }, ...prev]
AddRateFirst(prev, item, id, timestamp) ==
  <<WithIdentity(item, id, timestamp)>> \o prev

\* [...prev, { ...item, id: crypto.randomUUID(), timestamp: Date.now() }]
AddRate(prev, item, id, timestamp) ==
  Append(prev, WithIdentity(item, id, timestamp))

\* variant of FilterOutId: s.filter(i => i.id === id)
RECURSIVE FilterOnlyId(_, _)
FilterOnlyId(s, id) ==
  IF s = <<>> THEN <<>>
  ELSE IF Head(s).id = id
       THEN <<Head(s)>> \o FilterOnlyId(Tail(s), id)
       ELSE FilterOnlyId(Tail(s), id)

\* s.filter(i => i.id !== id)
RECURSIVE FilterOutId(_, _)
FilterOutId(s, id) ==
  IF s = <<>> THEN <<>>
  ELSE IF Head(s).id # id
       THEN <<Head(s)>> \o FilterOutId(Tail(s), id)
       ELSE FilterOutId(Tail(s), id)

\* the identifiers and the timestamps that the state holds
UsedIds ==
  IdsOf(sorData) \cup { r.id : r \in editingItem } \cup IdsOf(build.sorData)
  \cup { The(it.matchedRate).id :
           it \in { items[k] : k \in { j \in DOMAIN items : items[j].matchedRate # None } } }

TimestampsSeen ==
  { sorData[k].timestamp : k \in DOMAIN sorData }
  \cup { r.timestamp : r \in editingItem }
  \cup { build.sorData[k].timestamp : k \in DOMAIN build.sorData }
  \cup { The(it.matchedRate).timestamp :
           it \in { items[k] : k \in { j \in DOMAIN items : items[j].matchedRate # None } } }

\* variant of ItemsOnRerender: the matched record of an item is looked up
\* again by its identifier in the new catalog
ItemsRelinked(its, sor) ==
  [k \in DOMAIN its |->
     IF its[k].matchedRate = None THEN its[k]
     ELSE LET now == { sor[j] : j \in { i \in DOMAIN sor : sor[i].id = The(its[k].matchedRate).id } }
          IN IF now = {} THEN its[k]
             ELSE [its[k] EXCEPT !.matchedRate = Some(CHOOSE r \in now : TRUE)]]

\* A change of sorData renders TenderProcessor again with the new prop; items
\* is its own useState and is not derived from the prop, and the records the
\* items hold are objects that no catalog operation writes to (an update
\* makes a new object).
ItemsOnRerender(its, sor) == its

\* TenderProcessor is rendered only while view = 'tender': leaving the view
\* unmounts it, its state is dropped, and the setItems / setProcessing of a
\* handleProcess call still in flight go to the unmounted instance and are
\* discarded; entering the view mounts a new instance with the useState
\* initial values.
SetView(v) ==
  /\ phase = "running"
  /\ view' = v
  /\ IF v = view
     THEN UNCHANGED tenderVars
     ELSE /\ inputText' = <<>>
          /\ items' = <<>>
          /\ processing' = FALSE
          /\ build' = IdleBuild
  /\ lastOp' = NoOp
  /\ UNCHANGED <<variant, sorData, isFormOpen, editingItem>>
  /\ UNCHANGED <<storage, phase, pending>>
  /\ UNCHANGED <<rateForm, twin>>

\* header button: setEditingItem(null); setIsFormOpen(true)
OpenAdd ==
  /\ phase = "running"
  /\ editingItem' = None
  /\ isFormOpen' = TRUE
  /\ lastOp' = NoOp
  /\ UNCHANGED <<variant, view, sorData>>
  /\ UNCHANGED <<storage, phase, pending>>
  /\ UNCHANGED tenderVars
  /\ UNCHANGED <<rateForm, twin>>

\* RateList edit button: onEdit(item)
OpenEdit(k) ==
  /\ phase = "running"
  /\ view = "database"
  /\ k \in DOMAIN sorData
  /\ editingItem' = Some(sorData[k])
  /\ isFormOpen' = TRUE
  /\ lastOp' = NoOp
  /\ UNCHANGED <<variant, view, sorData>>
  /\ UNCHANGED <<storage, phase, pending>>
  /\ UNCHANGED tenderVars
  /\ rateForm' = [rateForm EXCEPT !.mode = "single"]
  /\ UNCHANGED twin

\* onCancel and the click on the backdrop: setIsFormOpen(false), and in
\* App.tsx also setEditingItem(null)
CancelForm ==
  /\ phase = "running"
  /\ isFormOpen
  /\ isFormOpen' = FALSE
  /\ editingItem' = IF variant = "App" THEN None ELSE editingItem
  /\ lastOp' = NoOp
  /\ UNCHANGED <<variant, view, sorData>>
  /\ UNCHANGED <<storage, phase, pending>>
  /\ UNCHANGED tenderVars
  /\ rateForm' = NewRateForm
  /\ UNCHANGED twin

\* handleAddOrUpdateRate with an editing item
SubmitUpdate(f) ==
  /\ isFormOpen
  /\ editingItem # None
  /\ sorData' = UpdateRate(sorData, The(editingItem), SubmittedItem(f))
  /\ isFormOpen' = FALSE
  /\ editingItem' = None
  /\ items' = ItemsOnRerender(items, sorData')
  /\ SaveEffect(sorData')
  /\ UNCHANGED <<variant, view, inputText, processing, build>>
  /\ UNCHANGED <<phase, pending, lastOp>>
  /\ rateForm' = NewRateForm
  /\ UNCHANGED twin

\* handleAddOrUpdateRate with no editing item
SubmitAdd(f) ==
  /\ isFormOpen
  /\ editingItem = None
  /\ Len(sorData) < MaxCatalog
  /\ \E t \in DateNow(TimestampsSeen) :
       sorData' = AddRate(sorData, SubmittedItem(f), RandomUUID(UsedIds), t)
  /\ isFormOpen' = FALSE
  /\ editingItem' = None
  /\ items' = ItemsOnRerender(items, sorData')
  /\ SaveEffect(sorData')
  /\ UNCHANGED <<variant, view, inputText, processing, build>>
  /\ UNCHANGED <<phase, pending, lastOp>>
  /\ rateForm' = NewRateForm
  /\ UNCHANGED twin

\* RateList delete button: onDelete(item.id)
DeleteRate(k) ==
  /\ view = "database"
  /\ k \in DOMAIN sorData
  /\ sorData' = FilterOutId(sorData, sorData[k].id)
  /\ items' = ItemsOnRerender(items, sorData')
  /\ SaveEffect(sorData')
  /\ UNCHANGED <<variant, view, isFormOpen, editingItem, inputText, processing, build>>
  /\ UNCHANGED <<phase, pending, lastOp>>
  /\ UNCHANGED <<rateForm, twin>>

\* ------------------------------------------------- the two external services
\* parseBulkItems after its request ended with outcome o:
\*   try { ...; return JSON.parse(response.text || '[]') } catch (e) { return [] }
\* A JSON value that is not an array is returned as it is.
ParseBulkItems(o) ==
  CASE o.kind = "throws" -> [iterable |-> TRUE, elems |-> <<>>]
    [] o.kind = "emptyText" -> [iterable |-> TRUE, elems |-> <<>>]
    [] o.kind = "unparseable" -> [iterable |-> TRUE, elems |-> <<>>]
    [] o.kind = "nonList" -> [iterable |-> FALSE, elems |-> <<>>]
    [] o.kind = "list" -> [iterable |-> TRUE, elems |-> o.list]

\* variant of MatcherShortCircuits: the request is made for any list
MatcherNeverShortCircuits(dbItems) == FALSE

\* if (dbItems.length === 0) return null;   (no request is made)
MatcherShortCircuits(dbItems) == Len(dbItems) = 0

\* variant of FindBestMatchingItem: a failed request falls back to the first
\* identifier instead of null
FindBestMatchingItemFallback(o) ==
  IF o.kind = "object" THEN o.matchedId ELSE Some(1)

\* findBestMatchingItem after its request ended with outcome o:
\*   try { const result = JSON.parse(response.text || '{}');
\*         return result.matchedId || null } catch (error) { return null }
\* The result is None for null.
FindBestMatchingItem(o) ==
  CASE o.kind = "throws" -> None
    [] o.kind = "emptyText" -> None
    [] o.kind = "unparseable" -> None
    [] o.kind = "jsonNull" -> None
    [] o.kind = "object" -> o.matchedId

\* the request ended without a usable answer
MatcherFailed(o) == o.kind \in {"throws", "emptyText", "unparseable", "jsonNull"}

\* --------------------------------------------------------- TenderProcessor
\* sorData.map(d => ({ id: d.id, name: d.name }))
DbItems(sor) == [k \in DOMAIN sor |-> [id |-> sor[k].id, name |-> sor[k].name]]

\* variant of Find: sorData.find(d => d.id === matchedId) || sorData[0]
FindOrFirst(sor, matchedId) ==
  IF sor = <<>> \/ matchedId = None THEN None
  ELSE LET hits == { k \in DOMAIN sor : sor[k].id = The(matchedId) }
       IN IF hits = {} THEN Some(sor[1])
          ELSE Some(sor[CHOOSE k \in hits : \A j \in hits : k <= j])

\* sorData.find(d => d.id === matchedId): the first such record, or undefined
RECURSIVE Find(_, _)
Find(sor, matchedId) ==
  IF sor = <<>> \/ matchedId = None THEN None
  ELSE IF Head(sor).id = The(matchedId) THEN Some(Head(sor))
       ELSE Find(Tail(sor), matchedId)

IsNull(p) == "isNull" \in DOMAIN p

\* p.quantity || 1
Quantity(p) ==
  IF "quantity" \in DOMAIN p /\ p.quantity # 0 THEN p.quantity ELSE 1

\* p.estimatedRate
EstimatedRate(p) ==
  IF "estimatedRate" \in DOMAIN p THEN Some(p.estimatedRate) ELSE None

\* variant of Status: part_001 compares the names as they are,
\*   match.name === p.name ? 'matched' : 'review'
StatusCaseSensitive(v, match, p) ==
  IF match = None THEN "no-match"
  ELSE IF v = "index" THEN "review"
       ELSE IF The(match).name = p.name THEN "matched" ELSE "review"

\* variant of Status: an item without a record keeps the status 'pending'
StatusPending(v, match, p) ==
  IF match = None THEN "pending"
  ELSE IF v = "index" THEN "review"
       ELSE IF ToLowerCase(The(match).name) = ToLowerCase(p.name)
            THEN "matched" ELSE "review"

\* index.tsx:     bestMatch ? 'review' : 'no-match'
\* part_001:      match ? (match.name.toLowerCase() === p.name.toLowerCase()
\*                         ? 'matched' : 'review') : 'no-match'
Status(v, match, p) ==
  IF match = None THEN "no-match"
  ELSE IF v = "index" THEN "review"
       ELSE IF ToLowerCase(The(match).name) = ToLowerCase(p.name)
            THEN "matched" ELSE "review"

\* variant of Push: results.unshift(item)
Unshift(results, item) == <<item>> \o results

\* results.push(item)
Push(results, item) == Append(results, item)

\* the object pushed to the result list
TenderItem(v, p, match, id) ==
  [id |-> id, name |-> p.name, quantity |-> Quantity(p),
   requestedScope |-> p.requestedScope, estimatedRate |-> EstimatedRate(p),
   matchedRate |-> match, status |-> Status(v, match, p)]

\* variant of SorDataOfCall: the call reads the catalog as it is now
SorDataLive(b, live) == live

\* the catalog a running handleProcess reads: the sorData prop of the render
\* whose handler was clicked, kept in the closure for the whole call
SorDataOfCall(b, live) == b.sorData

\* variant of ButtonEnabled: the text is tested without trim()
ButtonEnabledUntrimmed(v, proc, text, sor) ==
  /\ ~proc
  /\ text # <<>>
  /\ (v = "part_001" => Len(sor) # 0)

\* button: disabled={processing || !inputText.trim()}                (index)
\*         disabled={processing || !inputText.trim() || sorData.length === 0}
ButtonEnabled(v, proc, text, sor) ==
  /\ ~proc
  /\ Trim(text) # <<>>
  /\ (v = "part_001" => Len(sor) # 0)

\* The loop `for (const p of parsed)` from its position b.i up to the next
\* request it has to wait for, to its end, or to the exception that ends it.
RECURSIVE RunLoop(_, _, _)
RunLoop(v, b, live) ==
  LET sor == SorDataOfCall(b, live)
  IN IF b.i > Len(b.parsed)
     THEN [b EXCEPT !.pc = "done"]
     ELSE LET p == b.parsed[b.i]
          IN IF IsNull(p)
             THEN \* p.name of null: TypeError, nothing catches it
                  [b EXCEPT !.pc = "crashed"]
             ELSE IF MatcherShortCircuits(DbItems(sor))
                  THEN RunLoop(v,
                         [b EXCEPT
                            !.results = Push(@, TenderItem(v, p, Find(sor, None),
                                                           RandomUUID(IdsOf(@)))),
                            !.answer = "nocall",
                            !.matchedId = None,
                            !.i = @ + 1],
                         live)
                  ELSE [b EXCEPT !.pc = "match",
                                 !.sent = @ \cup {DbItems(sor)},
                                 !.matcherCalls = @ + 1]

\* variant of Settle: setItems(results) after every push
SettleEach(b) ==
  /\ build' = b
  /\ items' = b.results
  /\ processing' = IF b.pc = "done" THEN FALSE ELSE processing

\* setItems(results); setProcessing(false) when the loop has ended
Settle(b) ==
  /\ build' = b
  /\ IF b.pc = "done"
     THEN items' = b.results /\ processing' = FALSE
     ELSE UNCHANGED <<items, processing>>

\* textarea onChange
SetInputText(t) ==
  /\ view = "tender"
  /\ Len(items) = 0
  /\ inputText' = t
  /\ UNCHANGED <<variant, items, processing, build>>
  /\ UNCHANGED appVars

\* a handleProcess call that waits for its extractor request: its text and
\* the sorData of its closure
StartedBuild(text, sor) ==
  [IdleBuild EXCEPT !.pc = "extract", !.text = text,
                    !.sorData = sor,
                    !.startCatalog = sor,
                    !.extractorCalls = 1]

\* click on the build button: handleProcess up to the extractor request
HandleProcess ==
  /\ view = "tender"
  /\ Len(items) = 0
  /\ ButtonEnabled(variant, processing, inputText, sorData)
  /\ (variant = "part_001" => Trim(inputText) # <<>>)
  /\ processing' = TRUE
  /\ build' = StartedBuild(inputText, sorData)
  /\ UNCHANGED <<variant, inputText, items>>
  /\ UNCHANGED appVars

\* the call b of build v after its extractor request ended with outcome o:
\* the rest of parseBulkItems, then handleProcess up to the first matcher
\* request (or to its end)
OnExtractorReply(v, b, o, live) ==
  LET parsed == ParseBulkItems(o)
  IN IF ~parsed.iterable
     THEN \* for (const p of parsed): TypeError, nothing catches it
          [b EXCEPT !.pc = "crashed", !.outcome = o.kind]
     ELSE RunLoop(v,
                  [b EXCEPT !.parsed = parsed.elems, !.outcome = o.kind, !.i = 1],
                  live)

\* the extractor request ends
ExtractorReply(o) ==
  /\ build.pc = "extract"
  /\ Settle(OnExtractorReply(variant, build, o, sorData))
  /\ UNCHANGED <<variant, inputText>>
  /\ UNCHANGED appVars

\* the call b of build v after its matcher request ended with outcome o:
\* the rest of findBestMatchingItem, the push of the item, then the loop up
\* to the next matcher request (or to its end)
OnMatcherReply(v, b, o, live) ==
  LET sor == SorDataOfCall(b, live)
      p == b.parsed[b.i]
      matchedId == FindBestMatchingItem(o)
      match == Find(sor, matchedId)
      item == TenderItem(v, p, match, RandomUUID(IdsOf(b.results)))
  IN RunLoop(v,
             [b EXCEPT
                !.results = Push(@, item),
                !.answer = IF MatcherFailed(o) THEN "failed" ELSE "answered",
                !.matchedId = matchedId,
                !.i = @ + 1],
             live)

\* a matcher request ends
MatcherReply(o) ==
  /\ build.pc = "match"
  /\ Settle(OnMatcherReply(variant, build, o, sorData))
  /\ UNCHANGED <<variant, inputText>>
  /\ UNCHANGED appVars

\* "Clear All": setItems([])
ClearItems ==
  /\ view = "tender"
  /\ Len(items) # 0
  /\ items' = <<>>
  /\ build' = IdleBuild
  /\ UNCHANGED <<variant, inputText, processing>>
  /\ UNCHANGED appVars

\* --------------------------------------------------------------- quotation
\* variant of RateOrZero: item.matchedRate?.rate || item.estimatedRate || 0
RateOrEstimate(item) ==
  IF item.matchedRate # None /\ The(item.matchedRate).rate # 0
  THEN The(item.matchedRate).rate
  ELSE IF item.estimatedRate # None THEN The(item.estimatedRate) ELSE 0

\* item.matchedRate?.rate || 0
RateOrZero(item) ==
  IF item.matchedRate = None THEN 0
  ELSE IF The(item.matchedRate).rate = 0 THEN 0 ELSE The(item.matchedRate).rate

\* variant of LineAmount: the quantity is left out
LineAmountPerUnit(item) == RateOrZero(item)

\* item.quantity * (item.matchedRate?.rate || 0)
LineAmount(item) == item.quantity * RateOrZero(item)

\* items.reduce((sum, item) => sum + item.quantity * (item.matchedRate?.rate || 0), 0)
RECURSIVE Reduce(_, _)
Reduce(its, sum) ==
  IF its = <<>> THEN sum
  ELSE Reduce(Tail(its), sum + LineAmount(Head(its)))

CalculateTotal(its) == Reduce(its, 0)

\* ---------------------------------------------------------------- RateList
\* allRates.filter(r => r.name.toLowerCase() === item.name.toLowerCase())
RECURSIVE SameItems(_, _)
SameItems(allRates, item) ==
  IF allRates = <<>> THEN <<>>
  ELSE IF ToLowerCase(Head(allRates).name) = ToLowerCase(item.name)
       THEN <<Head(allRates)>> \o SameItems(Tail(allRates), item)
       ELSE SameItems(Tail(allRates), item)

\* Math.min(...sameItems.map(r => r.rate)), for a non-empty list
RECURSIVE MathMin(_)
MathMin(rs) ==
  IF Len(rs) = 1 THEN rs[1].rate
  ELSE LET rest == MathMin(Tail(rs))
       IN IF Head(rs).rate < rest THEN Head(rs).rate ELSE rest

\* variant of IsLowest: sameItems.length > 0
IsLowestOfAny(allRates, item) ==
  LET sameItems == SameItems(allRates, item)
  IN Len(sameItems) > 0 /\ item.rate = MathMin(sameItems)

\* isLowest: sameItems.length > 1 && item.rate === Math.min(...)
IsLowest(allRates, item) ==
  LET sameItems == SameItems(allRates, item)
  IN Len(sameItems) > 1 /\ item.rate = MathMin(sameItems)

\* ------------------------------------------- the modular build: src/App.tsx
\* most records the catalog of the modular build holds after an add or a
\* bulk import (guard of the two actions; a stored catalog may hold more)
MaxStored == 2

\* what the rate form can submit to handleAddOrUpdateRate: the rate input
\* is <input type="number"> without a min, so a negative number is accepted
CatalogForms ==
  Forms
  \cup { [name |-> <<"p", "i">>, unit |-> "m", rate |-> <<"-", "2">>,
          scopeOfWork |-> "pipe", source |-> "quote"] }

\* a form whose rate text is no number: what a rate form that hands over
\* whatever was typed submits, parseFloat taking the leading 3
InvalidForms ==
  { [name |-> <<"P", "i">>, unit |-> "m", rate |-> <<"3", "x">>,
     scopeOfWork |-> "gi pipe", source |-> "dsr"] }

\* the records the catalog extractor can offer for a bulk import
BulkItems ==
  { [name |-> <<"P", "i">>, unit |-> "m", rate |-> 5, scopeOfWork |-> "gi pipe",
     source |-> "dsr"],
    [name |-> <<"p", "i">>, unit |-> "m", rate |-> 3, scopeOfWork |-> "pipe",
     source |-> ""],
    [name |-> <<"r", "o">>, unit |-> "kg", rate |-> 0 - 1, scopeOfWork |-> "rod",
     source |-> ""] }

\* the lists "Import All" can pass to addBulkRates (the button is shown for
\* a non-empty preview)
BulkLists == SeqsUpTo(BulkItems, MaxItems) \ { <<>> }

\* catalogs that an earlier session has saved
StoredOne ==
  << [id |-> 1, name |-> <<"r", "o">>, unit |-> "kg", rate |-> 12,
      scopeOfWork |-> "rod", source |-> "", timestamp |-> 1] >>

StoredThree ==
  << [id |-> 1, name |-> <<"P", "i">>, unit |-> "m", rate |-> 5,
      scopeOfWork |-> "gi pipe", source |-> "dsr", timestamp |-> 1],
     [id |-> 2, name |-> <<"p", "i">>, unit |-> "m", rate |-> 3,
      scopeOfWork |-> "pipe", source |-> "", timestamp |-> 1],
     [id |-> 3, name |-> <<"P", "i">>, unit |-> "m", rate |-> 3,
      scopeOfWork |-> "pipe", source |-> "quote", timestamp |-> 2] >>

\* what localStorage.getItem(key) can give at startup: null (nothing stored),
\* the empty string, a text that is no JSON, the text {}, the text [null],
\* or the text of a saved catalog
StoredValues ==
  { None,
    Some([kind |-> "empty"]),
    Some([kind |-> "unparseable"]),
    Some([kind |-> "object"]),
    Some([kind |-> "array", elems |-> <<NullLiteral>>]),
    Some(Stringify(<<>>)),
    Some(Stringify(StoredOne)),
    Some(Stringify(StoredThree)) }

\* The load effect, given what getItem returned: the values of the
\* setSorData calls it makes.
\*   if (saved) { try { setSorData(JSON.parse(saved)) }
\*                catch (e) { console.error(...); setSorData([]) } }
LoadEffect(saved) ==
  IF saved = None \/ The(saved).kind = "empty" THEN <<>>
  ELSE LET parsed == JsonParse(The(saved))
       IN IF parsed.throws THEN << ArrayValue(<<>>) >>
          ELSE << parsed.value >>

\* React.StrictMode runs the effects of a mounting component a second time
\* in a development build, and once in a production build
StrictModes == BOOLEAN

\* The effects of the first commit.  The load effect reads the storage and
\* queues its update, the save effect writes the catalog of the first render
\* (sorData is still []); under the second run of StrictMode both run again,
\* the load effect now reading what the save effect has just written.
MountEffects(strict) ==
  /\ phase = "mounted"
  /\ LET written == Some(Stringify(sorData))
     IN /\ pending' = LoadEffect(storage)
                         \o (IF strict THEN LoadEffect(written) ELSE <<>>)
        /\ storage' = written
  /\ phase' = "loaded"
  /\ lastOp' = [op |-> "load", saved |-> storage, strict |-> strict]
  /\ UNCHANGED <<variant, view, sorData, isFormOpen, editingItem>>
  /\ UNCHANGED tenderVars
  /\ UNCHANGED <<rateForm, twin>>

\* App renders value as its catalog without an exception: groupedRates
\* calls sorData.filter(item => item.name.toLowerCase()...)
Renders(value) ==
  /\ value.isArray
  /\ \A k \in DOMAIN value.elems : ~IsNull(value.elems[k])

\* The render that the queued updates cause: they are applied in order, so
\* the last value is the state; the save effect runs for the new sorData.
\* An exception in the render unmounts the tree (there is no error boundary).
Rerender ==
  /\ phase = "loaded"
  /\ IF pending = <<>>
     THEN /\ phase' = "running"
          /\ UNCHANGED <<sorData, storage>>
     ELSE LET value == pending[Len(pending)]
          IN IF Renders(value)
             THEN /\ sorData' = value.elems
                  /\ SaveEffect(sorData')
                  /\ phase' = "running"
             ELSE /\ phase' = "crashed"
                  /\ UNCHANGED <<sorData, storage>>
  /\ pending' = <<>>
  /\ UNCHANGED <<variant, view, isFormOpen, editingItem, lastOp>>
  /\ UNCHANGED tenderVars
  /\ UNCHANGED <<rateForm, twin>>

\* handleAddOrUpdateRate, if (editingItem): the handler has no throw and no
\* return value, so no error reaches its caller
AppUpdateRate(f) ==
  /\ phase = "running"
  /\ isFormOpen
  /\ editingItem # None
  /\ sorData' = UpdateRate(sorData, The(editingItem), SubmittedItem(f))
  /\ isFormOpen' = FALSE
  /\ editingItem' = None
  /\ SaveEffect(sorData')
  /\ lastOp' = [op |-> "update", item |-> SubmittedItem(f),
                rateText |-> f.rate, id |-> The(editingItem).id, error |-> None]
  /\ UNCHANGED <<variant, view, phase, pending>>
  /\ UNCHANGED tenderVars
  /\ rateForm' = NewRateForm
  /\ UNCHANGED twin

\* handleAddOrUpdateRate, else
AppAddRate(f) ==
  /\ phase = "running"
  /\ isFormOpen
  /\ editingItem = None
  /\ Len(sorData) < MaxStored
  /\ \E t \in DateNow(TimestampsSeen) :
       sorData' = AddRate(sorData, SubmittedItem(f), RandomUUID(UsedIds), t)
  /\ isFormOpen' = FALSE
  /\ editingItem' = None
  /\ SaveEffect(sorData')
  /\ lastOp' = [op |-> "add", item |-> SubmittedItem(f),
                rateText |-> f.rate, error |-> None]
  /\ UNCHANGED <<variant, view, phase, pending>>
  /\ UNCHANGED tenderVars
  /\ rateForm' = NewRateForm
  /\ UNCHANGED twin

\* variant of FreshIds: crypto.randomUUID() is called once, before the map
FreshIdsOnce(used, n) == [k \in 1..n |-> RandomUUID(used)]

\* the identifiers of n calls of crypto.randomUUID()
RECURSIVE FreshIds(_, _)
FreshIds(used, n) ==
  IF n = 0 THEN <<>>
  ELSE LET id == RandomUUID(used)
       IN <<id>> \o FreshIds(used \cup {id}, n - 1)

\* the values of n calls of Date.now(), one after the other
RECURSIVE Timestamps(_, _)
Timestamps(seen, n) ==
  IF n = 0 THEN { <<>> }
  ELSE UNION { { <<t>> \o rest : rest \in Timestamps(seen \cup {t}, n - 1) } :
               t \in DateNow(seen) }

\* items.map(item => ({ ...item, id: crypto.randomUUID(), timestamp: Date.now() }))
NewItems(its, ids, ts) ==
  [k \in DOMAIN its |-> WithIdentity(its[k], ids[k], ts[k])]

\* addBulkRates: setSorData(prev => [...prev, ...newItems]); setIsFormOpen(false)
AddBulkRates(its) ==
  /\ phase = "running"
  /\ isFormOpen
  /\ editingItem = None
  /\ Len(sorData) + Len(its) <= MaxStored
  /\ \E ts \in Timestamps(TimestampsSeen, Len(its)) :
       sorData' = sorData \o NewItems(its, FreshIds(UsedIds, Len(its)), ts)
  /\ isFormOpen' = FALSE
  /\ SaveEffect(sorData')
  /\ lastOp' = [op |-> "bulk", items |-> its, error |-> None]
  /\ UNCHANGED <<variant, view, editingItem, phase, pending>>
  /\ UNCHANGED tenderVars
  /\ rateForm' = NewRateForm
  /\ UNCHANGED twin

\* deleteRate: setSorData(sorData.filter(item => item.id !== id)), where
\* sorData is the catalog of the render that shows the clicked button
AppDeleteRate(k) ==
  /\ phase = "running"
  /\ view = "database"
  /\ k \in DOMAIN sorData
  /\ sorData' = FilterOutId(sorData, sorData[k].id)
  /\ SaveEffect(sorData')
  /\ lastOp' = [op |-> "remove", id |-> sorData[k].id, error |-> None]
  /\ UNCHANGED <<variant, view, isFormOpen, editingItem, phase, pending>>
  /\ UNCHANGED tenderVars
  /\ UNCHANGED <<rateForm, twin>>

\* ------------------------------------------------ RateForm: AI bulk import
\* the ways the request of parseRatesFromText can end: it throws, its text
\* is empty, is no JSON, is the JSON text {} or null, or is a JSON array
RateOutcomes ==
  { [kind |-> "throws"], [kind |-> "emptyText"], [kind |-> "unparseable"],
    [kind |-> "object"], [kind |-> "jsonNull"] }
  \cup { [kind |-> "list", list |-> l] : l \in SeqsUpTo(BulkItems, MaxItems) }

\* parseRatesFromText after its request ended with outcome o:
\*   try { ...; return JSON.parse(response.text || '[]') }
\*   catch (error) { console.error(...); return [] }
\* A JSON value that is not an array is returned as it is.
ParseRatesFromText(o) ==
  CASE o.kind = "throws" -> ArrayValue(<<>>)
    [] o.kind = "emptyText" -> ArrayValue(<<>>)
    [] o.kind = "unparseable" -> ArrayValue(<<>>)
    [] o.kind = "object" -> [isArray |-> FALSE, isNull |-> FALSE]
    [] o.kind = "jsonNull" -> [isArray |-> FALSE, isNull |-> TRUE]
    [] o.kind = "list" -> ArrayValue(o.list)

\* the value is null
IsJsonNull(value) == ~value.isArray /\ value.isNull

\* previewItems.length is truthy: the preview and "Import All" are shown in
\* place of the textarea (the length of an object without one is undefined)
HasPreview(value) == value.isArray /\ Len(value.elems) > 0

\* RateForm renders without an exception: in bulk mode it reads
\* previewItems.length, a TypeError for null
FormRenders(form) == form.mode = "bulk" => ~IsJsonNull(form.previewItems)

\* the phase after a render of the form; an exception in a render unmounts
\* the tree (there is no error boundary)
PhaseAfter(form) == IF FormRenders(form) THEN "running" ELSE "crashed"

\* the buttons "Single" / "AI Bulk", shown when no record is edited
SetMode(m) ==
  /\ phase = "running"
  /\ isFormOpen
  /\ editingItem = None
  /\ rateForm' = [rateForm EXCEPT !.mode = m]
  /\ phase' = PhaseAfter(rateForm')
  /\ lastOp' = NoOp
  /\ UNCHANGED <<variant, view, sorData, isFormOpen, editingItem>>
  /\ UNCHANGED <<storage, pending, twin>>
  /\ UNCHANGED tenderVars

\* the textarea of the bulk mode, shown while there is no preview
SetBulkText(t) ==
  /\ phase = "running"
  /\ isFormOpen
  /\ rateForm.mode = "bulk"
  /\ ~HasPreview(rateForm.previewItems)
  /\ rateForm' = [rateForm EXCEPT !.bulkText = t]
  /\ lastOp' = NoOp
  /\ UNCHANGED <<variant, view, sorData, isFormOpen, editingItem>>
  /\ UNCHANGED <<storage, phase, pending, twin>>
  /\ UNCHANGED tenderVars

\* click on "Scrape" (disabled={isProcessing}): handleScrape up to its request
\*   if (!bulkText.trim()) return; setIsProcessing(true);
HandleScrape ==
  /\ phase = "running"
  /\ isFormOpen
  /\ rateForm.mode = "bulk"
  /\ ~HasPreview(rateForm.previewItems)
  /\ ~rateForm.isProcessing
  /\ Trim(rateForm.bulkText) # <<>>
  /\ rateForm' = [rateForm EXCEPT !.isProcessing = TRUE, !.scrape = "request"]
  /\ lastOp' = NoOp
  /\ UNCHANGED <<variant, view, sorData, isFormOpen, editingItem>>
  /\ UNCHANGED <<storage, phase, pending, twin>>
  /\ UNCHANGED tenderVars

\* the request ends: the rest of parseRatesFromText, then
\*   setPreviewItems(extracted); setIsProcessing(false);
\* (a form that was closed meanwhile has dropped its state and the call)
ScrapeReply(o) ==
  /\ phase = "running"
  /\ rateForm.scrape = "request"
  /\ rateForm' = [rateForm EXCEPT !.previewItems = ParseRatesFromText(o),
                                  !.isProcessing = FALSE,
                                  !.scrape = "idle"]
  /\ phase' = PhaseAfter(rateForm')
  /\ lastOp' = [op |-> "scrape", outcome |-> o.kind]
  /\ UNCHANGED <<variant, view, sorData, isFormOpen, editingItem>>
  /\ UNCHANGED <<storage, pending, twin>>
  /\ UNCHANGED tenderVars

\* click on "Import All": onBulkSubmit(previewItems)
ImportAll ==
  /\ rateForm.mode = "bulk"
  /\ HasPreview(rateForm.previewItems)
  /\ AddBulkRates(rateForm.previewItems.elems)

\* ------------------------------------------- two builds on the same answers
\* the estimated rates a source document can give for a candidate
TwinEstimates == { None, Some(1), Some(5) }

\* the candidate p with the estimated rate e (null stays null)
WithEstimate(p, e) ==
  IF IsNull(p) THEN p
  ELSE LET rest == [k \in DOMAIN p \ {"estimatedRate"} |-> p[k]]
       IN IF e = None THEN rest ELSE rest @@ ("estimatedRate" :> The(e))

\* the extractor outcome o with the estimated rates es in its candidates
Reestimated(o, es) ==
  IF o.kind = "list"
  THEN [o EXCEPT !.list = [k \in DOMAIN o.list |-> WithEstimate(o.list[k], es[k])]]
  ELSE o

\* the catalogs the two builds can find
TwinCatalogs == { <<>>, StoredOne, StoredThree }

\* the arguments of one matcher request:
\*   gemini.findBestMatchingItem(p.name, p.requestedScope,
\*                               sorData.map(d => ({ id: d.id, name: d.name })))
MatcherRequest(p, sor) ==
  [targetItemName |-> p.name, targetScope |-> p.requestedScope,
   dbItems |-> DbItems(sor)]

\* what stays as it is while the two calls run
twinFrame == <<variant, view, sorData, isFormOpen, editingItem, inputText,
               storage, phase, pending, lastOp, rateForm>>

\* the build button is clicked in both builds
TwinHandleProcess ==
  /\ view = "tender"
  /\ Len(items) = 0
  /\ twin.b.pc = "idle"
  /\ ButtonEnabled(variant, processing, inputText, sorData)
  /\ ButtonEnabled(twin.variant, FALSE, inputText, sorData)
  /\ processing' = TRUE
  /\ build' = StartedBuild(inputText, sorData)
  /\ twin' = [twin EXCEPT !.b = StartedBuild(inputText, sorData)]
  /\ UNCHANGED items
  /\ UNCHANGED twinFrame

\* the extractor requests of both calls end in the same way, the candidates
\* of the second call having the estimated rates es
TwinExtractorReply(o, es) ==
  /\ build.pc = "extract"
  /\ twin.b.pc = "extract"
  /\ Settle(OnExtractorReply(variant, build, o, sorData))
  /\ twin' = [twin EXCEPT
                !.b = OnExtractorReply(twin.variant, @, Reestimated(o, es), sorData)]
  /\ UNCHANGED twinFrame

\* the matcher requests of both calls end with the same answer
TwinMatcherReply(o) ==
  /\ build.pc = "match"
  /\ twin.b.pc = "match"
  /\ Settle(OnMatcherReply(variant, build, o, sorData))
  /\ twin' = [twin EXCEPT !.b = OnMatcherReply(twin.variant, @, o, sorData)]
  /\ UNCHANGED twinFrame

\* ----------------------------------------------------------- specification
Next ==
  \/ \E v \in {"database", "tender"} : SetView(v)
  \/ OpenAdd
  \/ \E k \in 1..MaxCatalog + 1 : OpenEdit(k)
  \/ CancelForm
  \/ \E f \in Forms : SubmitUpdate(f)
  \/ \E f \in Forms : SubmitAdd(f)
  \/ \E k \in 1..MaxCatalog + 1 : DeleteRate(k)
  \/ \E t \in Texts : SetInputText(t)
  \/ HandleProcess
  \/ \E o \in ExtractorOutcomes : ExtractorReply(o)
  \/ \E o \in MatcherOutcomes({0} \cup IdsOf(sorData) \cup IdsOf(build.sorData)) :
       MatcherReply(o)
  \/ ClearItems

Spec == Init /\ [][Next]_vars

\* The modular build from its first commit, with whatever an earlier session
\* or another program has left in the storage.
InitCatalog ==
  /\ variant = "App"
  /\ view = "database"
  /\ sorData = <<>>
  /\ isFormOpen = FALSE
  /\ editingItem = None
  /\ inputText = <<>>
  /\ items = <<>>
  /\ processing = FALSE
  /\ build = IdleBuild
  /\ storage \in StoredValues
  /\ phase = "mounted"
  /\ pending = <<>>
  /\ lastOp = NoOp
  /\ rateForm = NewRateForm
  /\ twin = NoTwin

NextCatalog ==
  \/ \E strict \in StrictModes : MountEffects(strict)
  \/ Rerender
  \/ \E v \in {"database", "tender"} : SetView(v)
  \/ OpenAdd
  \/ \E k \in 1..Len(sorData) : OpenEdit(k)
  \/ CancelForm
  \/ \E f \in CatalogForms : AppUpdateRate(f)
  \/ \E f \in CatalogForms : AppAddRate(f)
  \/ \E its \in BulkLists : AddBulkRates(its)
  \/ \E k \in 1..Len(sorData) : AppDeleteRate(k)

SpecCatalog == InitCatalog /\ [][NextCatalog]_vars

\* The modular build after a startup with nothing stored, with the rate
\* form and its bulk import.
InitBulk ==
  /\ variant = "App"
  /\ view = "database"
  /\ sorData = <<>>
  /\ isFormOpen = FALSE
  /\ editingItem = None
  /\ inputText = <<>>
  /\ items = <<>>
  /\ processing = FALSE
  /\ build = IdleBuild
  /\ storage = Some(Stringify(<<>>))
  /\ phase = "running"
  /\ pending = <<>>
  /\ lastOp = NoOp
  /\ rateForm = NewRateForm
  /\ twin = NoTwin

NextBulk ==
  \/ \E v \in {"database", "tender"} : SetView(v)
  \/ OpenAdd
  \/ \E k \in 1..Len(sorData) : OpenEdit(k)
  \/ CancelForm
  \/ \E f \in CatalogForms : AppUpdateRate(f)
  \/ \E f \in CatalogForms : AppAddRate(f)
  \/ \E k \in 1..Len(sorData) : AppDeleteRate(k)
  \/ \E m \in {"single", "bulk"} : SetMode(m)
  \/ \E t \in Texts : SetBulkText(t)
  \/ HandleScrape
  \/ \E o \in RateOutcomes : ScrapeReply(o)
  \/ ImportAll

SpecBulk == InitBulk /\ [][NextBulk]_vars

\* Two builds side by side, each one of the two single-file builds, in the
\* tender view with the same catalog and the same text typed.
InitTwin ==
  /\ variant \in {"index", "part_001"}
  /\ view = "tender"
  /\ sorData \in TwinCatalogs
  /\ isFormOpen = FALSE
  /\ editingItem = None
  /\ inputText = <<" ", "a">>
  /\ items = <<>>
  /\ processing = FALSE
  /\ build = IdleBuild
  /\ storage = Some(Stringify(sorData))
  /\ phase = "running"
  /\ pending = <<>>
  /\ lastOp = NoOp
  /\ rateForm = NewRateForm
  /\ twin \in { [variant |-> v, b |-> IdleBuild] : v \in {"index", "part_001"} }

NextTwin ==
  \/ TwinHandleProcess
  \/ \E o \in ExtractorOutcomes, es \in [1..MaxItems -> TwinEstimates] :
       TwinExtractorReply(o, es)
  \/ \E o \in MatcherOutcomes({0} \cup IdsOf(sorData)) : TwinMatcherReply(o)

SpecTwin == InitTwin /\ [][NextTwin]_vars

\* The modular build after a startup with nothing stored, with a rate form
\* that submits any text as the rate: the catalog mutation is then the only
\* place where the rate can be checked.
NextSubmit ==
  \/ OpenAdd
  \/ \E k \in 1..Len(sorData) : OpenEdit(k)
  \/ CancelForm
  \/ \E f \in CatalogForms \cup InvalidForms : AppUpdateRate(f)
  \/ \E f \in CatalogForms \cup InvalidForms : AppAddRate(f)
  \/ \E k \in 1..Len(sorData) : AppDeleteRate(k)

SpecSubmit == InitBulk /\ [][NextSubmit]_vars

\* -------------------------------------------------------------- properties
\* the call has ended normally and items holds its result
Done == build.pc = "done"

\* the call is waiting for the extractor or the matcher
Running(b) == b.pc \in {"extract", "match"}

EqualIgnoringCase(a, b) == ToLowerCase(a) = ToLowerCase(b)

\* C1: every item of a finished build has status "no-match" when no record
\* was resolved, "matched" when the resolved record's name equals the
\* candidate's ignoring case, and "review" when a record was resolved whose
\* name differs.
C1_StatusFollowsMatch ==
  Done =>
    \A k \in DOMAIN items :
      items[k].status =
        IF items[k].matchedRate = None THEN "no-match"
        ELSE IF EqualIgnoringCase(The(items[k].matchedRate).name, build.parsed[k].name)
             THEN "matched" ELSE "review"

\* C2: when the extractor request fails in any way (it throws, its text is
\* empty or unparseable, or it parses to something that is not a list), the
\* build ends normally with the empty item list and without a matcher request.
C2_ExtractorFailureYieldsEmpty ==
  (build.outcome \in {"throws", "emptyText", "unparseable", "nonList"}) =>
    /\ Done
    /\ items = <<>>
    /\ build.matcherCalls = 0

\* C3: when the matcher request for a candidate fails, that candidate's item
\* is pushed with status "no-match" and no matched record, the failure raises
\* no exception (the call goes on to the next candidate or ends normally; it
\* is only ended by the next candidate being null), and a build that ends has
\* resolved every candidate.
C3_MatcherFailureIsNoMatch ==
  (build.answer = "failed") =>
    /\ Len(build.results) = build.i - 1
    /\ build.results[build.i - 1].status = "no-match"
    /\ build.results[build.i - 1].matchedRate = None
    /\ build.results[build.i - 1].name = build.parsed[build.i - 1].name
    /\ build.pc \in {"match", "done", "crashed"}
    /\ (build.pc = "crashed" => IsNull(build.parsed[build.i]))
    /\ (Done => Len(items) = Len(build.parsed))

C3_Witness ==
  /\ Done
  /\ build.answer = "failed"
  /\ Len(items) = 2
  /\ items[1].status = "review"
  /\ items[2].status = "no-match"

\* C4: a build that began with an empty catalog makes no matcher request,
\* and when it ends it has one item per candidate, each with status
\* "no-match" and no matched record.
C4_EmptyCatalogNoMatch ==
  (build.pc # "idle" /\ build.startCatalog = <<>>) =>
    /\ build.matcherCalls = 0
    /\ build.sent = {}
    /\ (Done =>
          /\ Len(items) = Len(build.parsed)
          /\ \A k \in DOMAIN items :
               items[k].status = "no-match" /\ items[k].matchedRate = None)

C4_Witness ==
  /\ Done
  /\ build.startCatalog = <<>>
  /\ Len(items) = 2

\* C5: while the input text is empty or only whitespace no build begins: no
\* step from such a state starts a handleProcess call, makes an extractor or
\* a matcher request, or puts an item into the list.
C5_BlankTextStartsNothing ==
  [][ (Trim(inputText) = <<>> /\ ~Running(build)) =>
        /\ ~Running(build')
        /\ items' \in {items, <<>>}
        /\ build'.extractorCalls <= build.extractorCalls
        /\ build'.matcherCalls <= build.matcherCalls ]_vars

C5_Witness ==
  /\ view = "tender"
  /\ inputText # <<>>
  /\ Trim(inputText) = <<>>
  /\ Len(sorData) > 0
  /\ ~processing
  /\ items = <<>>

\* C6: a finished build has exactly one item per extracted candidate, and the
\* k-th item carries the name, the requested scope and the estimated rate of
\* the k-th candidate.
C6_OrderIsExtractionOrder ==
  Done =>
    /\ Len(items) = Len(build.parsed)
    /\ \A k \in DOMAIN items :
         /\ items[k].name = build.parsed[k].name
         /\ items[k].requestedScope = build.parsed[k].requestedScope
         /\ items[k].estimatedRate = EstimatedRate(build.parsed[k])

C6_Witness ==
  /\ Done
  /\ Len(items) = 2
  /\ items[1].name # items[2].name
  /\ items[1].matchedRate # None
  /\ items[2].matchedRate # None

\* C7: every item of a build has a positive quantity: the candidate's when
\* that is a positive number, and 1 otherwise.
C7_QuantityIsPositive ==
  Done =>
    \A k \in DOMAIN items :
      /\ items[k].quantity > 0
      /\ items[k].quantity =
           IF "quantity" \in DOMAIN build.parsed[k] /\ build.parsed[k].quantity > 0
           THEN build.parsed[k].quantity ELSE 1

\* the sum of quantity times matched rate (0 without a matched record) over
\* the first n items
RECURSIVE SumOfAmounts(_, _)
SumOfAmounts(its, n) ==
  IF n = 0 THEN 0
  ELSE SumOfAmounts(its, n - 1)
       + (IF its[n].matchedRate = None THEN 0
          ELSE its[n].quantity * The(its[n].matchedRate).rate)

\* C8: the line amount shown for an item is its quantity times the rate of
\* its matched record, or 0 without a matched record, and the grand total
\* shown is the sum of the line amounts.
C8_TotalsAreSums ==
  /\ \A k \in DOMAIN items :
       LineAmount(items[k]) =
         IF items[k].matchedRate = None THEN 0
         ELSE items[k].quantity * The(items[k].matchedRate).rate
  /\ CalculateTotal(items) = SumOfAmounts(items, Len(items))

C8_Witness ==
  /\ Len(items) = 2
  /\ items[1].matchedRate # None
  /\ items[2].matchedRate = None
  /\ items[1].quantity = 2
  /\ CalculateTotal(items) = 24

\* C9: a catalog add, update or remove leaves the item list as it was, every
\* item with its matched record, status and line amount, and so the grand
\* total.
C9_CatalogEditsKeepItems ==
  [][ (sorData' # sorData) =>
        /\ items' = items
        /\ CalculateTotal(items') = CalculateTotal(items) ]_vars

\* an item's matched record has since been updated in the catalog
C9_Witness ==
  \E k \in DOMAIN items : \E j \in DOMAIN sorData :
    /\ items[k].matchedRate # None
    /\ The(items[k].matchedRate).id = sorData[j].id
    /\ The(items[k].matchedRate).rate # sorData[j].rate
    /\ The(items[k].matchedRate).name # sorData[j].name

\* C10: a build works on the catalog as it was when the build began: every
\* list sent to the matcher is the (id, name) list of that catalog, the last
\* matcher answer was resolved against that catalog, and every matched record
\* is a record of that catalog, whatever the catalog is by now.
C10_BuildUsesStartCatalog ==
  (build.pc # "idle") =>
    /\ build.sent \subseteq {DbItems(build.startCatalog)}
    /\ (build.matcherCalls > 0 <=> build.sent # {})
    /\ (build.answer \in {"failed", "answered"} =>
          build.results[Len(build.results)].matchedRate
            = Find(build.startCatalog, build.matchedId))
    /\ \A k \in DOMAIN build.results :
         build.results[k].matchedRate \subseteq
           { build.startCatalog[j] : j \in DOMAIN build.startCatalog }

\* the catalog was edited while the call waits for the matcher, and an item
\* was resolved to a record that the catalog no longer holds as it was
C10_Witness ==
  /\ build.pc = "match"
  /\ build.matcherCalls = 2
  /\ sorData # build.startCatalog
  /\ \E k \in DOMAIN build.results :
       /\ build.results[k].matchedRate # None
       /\ \A j \in DOMAIN sorData : sorData[j] # The(build.results[k].matchedRate)

\* C11: once an extractor or matcher request of a build has failed and the
\* call is no longer waiting for a request, the build has ended with the
\* processing flag back to false, so that the build button works again.
C11_FailureLeavesUsable ==
  ( /\ \/ build.outcome \in {"throws", "emptyText", "unparseable", "nonList"}
       \/ build.answer = "failed"
    /\ ~Running(build) ) =>
    /\ Done
    /\ ~processing

\* the positions of the catalog records that have the name of record k,
\* ignoring case
SameName(sor, k) ==
  { j \in DOMAIN sor : EqualIgnoringCase(sor[j].name, sor[k].name) }

\* C12: a catalog record is flagged lowest exactly when at least two records
\* have its name ignoring case and none of them has a smaller rate; so all
\* records tied at the minimum are flagged and a record with a unique name
\* never is.
C12_LowestIsMinimumOfSameName ==
  \A k \in DOMAIN sorData :
    /\ IsLowest(sorData, sorData[k]) <=>
         /\ Cardinality(SameName(sorData, k)) >= 2
         /\ \A j \in SameName(sorData, k) : sorData[j].rate >= sorData[k].rate
    /\ (SameName(sorData, k) = {k} => ~IsLowest(sorData, sorData[k]))

\* three records of one name ignoring case (two spellings): the two tied at
\* the minimum are flagged, the third is not
C12_Witness ==
  /\ Len(sorData) = 3
  /\ SameName(sorData, 1) = {1, 2, 3}
  /\ sorData[1].name # sorData[2].name
  /\ ~IsLowest(sorData, sorData[1])
  /\ IsLowest(sorData, sorData[2])
  /\ IsLowest(sorData, sorData[3])

\* no two records of the catalog have the same identifier
UniqueIds(sor) ==
  \A i, j \in DOMAIN sor : i # j => sor[i].id # sor[j].id

\* C13: a single add, a bulk import, an update or a remove applied to a
\* catalog with unique identifiers gives a catalog with unique identifiers
\* (and so does the load of a saved catalog that has them).
C13_IdsStayUnique ==
  [][ UniqueIds(sorData) => UniqueIds(sorData') ]_vars

\* a bulk import of two records of one name
C13_Witness ==
  /\ lastOp.op = "bulk"
  /\ Len(lastOp.items) = 2
  /\ Len(sorData) = 2
  /\ UniqueIds(sorData)
  /\ sorData[1].name = sorData[2].name
  /\ sorData[1].rate = sorData[2].rate

\* C14: every record of the catalog has a rate that is not negative,
\* whatever single adds, bulk imports and updates have been made.
C14_RatesAreNotNegative ==
  \A k \in DOMAIN sorData : sorData[k].rate >= 0

\* C15: an update leaves the number of records as it was; the record with
\* the identifier of the editing item stays at its position with its
\* identifier and its creation timestamp and gets the submitted name, unit,
\* rate, scope and source; every other record is as it was.
C15_UpdateReplacesFields ==
  [][ lastOp'.op = "update" =>
        /\ Len(sorData') = Len(sorData)
        /\ \A k \in DOMAIN sorData :
             IF sorData[k].id = lastOp'.id
             THEN /\ sorData'[k].id = sorData[k].id
                  /\ sorData'[k].timestamp = sorData[k].timestamp
                  /\ sorData'[k].name = lastOp'.item.name
                  /\ sorData'[k].unit = lastOp'.item.unit
                  /\ sorData'[k].rate = lastOp'.item.rate
                  /\ sorData'[k].scopeOfWork = lastOp'.item.scopeOfWork
                  /\ sorData'[k].source = lastOp'.item.source
             ELSE sorData'[k] = sorData[k] ]_vars

\* the second of three records of one name has been updated to another name
\* and rate; its neighbours are the stored ones
C15_Witness ==
  /\ lastOp.op = "update"
  /\ Len(sorData) = 3
  /\ sorData[2].id = lastOp.id
  /\ sorData[2].name = <<"r", "o">>
  /\ sorData[2].rate = 12
  /\ sorData[2].timestamp = StoredThree[2].timestamp
  /\ sorData[1] = StoredThree[1]
  /\ sorData[3] = StoredThree[3]

\* C16: an update whose editing item has an identifier that no record of
\* the catalog has reports the error NotFound to its caller and leaves the
\* catalog as it was.
C16_UpdateOfAbsentIdFails ==
  [][ (lastOp'.op = "update" /\ lastOp'.id \notin IdsOf(sorData)) =>
        /\ lastOp'.error = Some("NotFound")
        /\ sorData' = sorData ]_vars

\* the records of sor whose identifier is not id, in their order
WithoutId(sor, id) == SelectSeq(sor, LAMBDA r : r.id # id)

\* C17: a remove deletes exactly the records with the given identifier,
\* keeps the others in their order and reports no error; applied to any
\* catalog with an identifier that no record has it changes nothing, and
\* applied twice it gives what it gives once.
C17_RemoveFiltersById ==
  [][ lastOp'.op = "remove" =>
        /\ sorData' = WithoutId(sorData, lastOp'.id)
        /\ lastOp'.error = None
        /\ \A id \in 0..(Len(sorData) + 1) :
             /\ FilterOutId(sorData, id) = WithoutId(sorData, id)
             /\ (id \notin IdsOf(sorData) => FilterOutId(sorData, id) = sorData)
             /\ FilterOutId(FilterOutId(sorData, id), id) = FilterOutId(sorData, id)
             /\ FilterOutId(sorData', lastOp'.id) = sorData' ]_vars

\* the second of the three stored records has been removed
C17_Witness ==
  /\ lastOp.op = "remove"
  /\ lastOp.id = 2
  /\ sorData = << StoredThree[1], StoredThree[3] >>

\* C18: a single add reports no error and makes the catalog one record
\* longer: the earlier records are as they were and in their places, and the
\* last record has the submitted name, unit, rate, scope and source, an
\* identifier that no earlier record has, and a creation timestamp; this
\* also when an earlier record has the submitted name.
C18_AddAppendsOneRecord ==
  [][ lastOp'.op = "add" =>
        LET n == Len(sorData')
        IN /\ lastOp'.error = None
           /\ n = Len(sorData) + 1
           /\ SubSeq(sorData', 1, n - 1) = sorData
           /\ sorData'[n].name = lastOp'.item.name
           /\ sorData'[n].unit = lastOp'.item.unit
           /\ sorData'[n].rate = lastOp'.item.rate
           /\ sorData'[n].scopeOfWork = lastOp'.item.scopeOfWork
           /\ sorData'[n].source = lastOp'.item.source
           /\ sorData'[n].id \notin IdsOf(sorData)
           /\ sorData'[n].timestamp \in 1..MaxClock ]_vars

\* a record was added whose name an earlier record has
C18_Witness ==
  /\ lastOp.op = "add"
  /\ Len(sorData) = 2
  /\ sorData[2].name = sorData[1].name
  /\ sorData[2].name = lastOp.item.name
  /\ sorData[2].id # sorData[1].id

\* the stored text is that of a non-empty list of records
IsRecordList(saved) ==
  /\ saved # None
  /\ The(saved).kind = "array"
  /\ Len(The(saved).elems) > 0
  /\ \A k \in DOMAIN The(saved).elems : The(saved).elems[k] # NullLiteral

\* C19: when at startup nothing is stored, or the stored text is empty, is
\* no JSON or is not the text of a list of records, the application does
\* not crash and, once started, has the empty catalog.
C19_UnloadableStartsEmpty ==
  (lastOp.op = "load" /\ ~IsRecordList(lastOp.saved)) =>
    /\ phase # "crashed"
    /\ (phase = "running" => sorData = <<>>)

\* C20: when the application has started from the stored text of a
\* non-empty list of records and nothing was edited since, the storage holds
\* a text that parses to the same records as the text it held before, with
\* the same identifiers and field values in the same order, and they are
\* the catalog.
C20_LoadThenSaveKeepsRecords ==
  (lastOp.op = "load" /\ phase = "running" /\ IsRecordList(lastOp.saved)) =>
    /\ storage # None
    /\ JsonParse(The(storage)) = JsonParse(The(lastOp.saved))
    /\ ArrayValue(sorData) = JsonParse(The(lastOp.saved)).value

\* the ways parseRatesFromText's request can fail
ScrapeFailed(kind) ==
  kind \in {"throws", "emptyText", "unparseable", "object", "jsonNull"}

\* C21: when the request of parseRatesFromText fails during a bulk import
\* (it throws, or its text is empty, is no JSON, or is JSON that is no list),
\* the form goes on running and offers no preview record, so that nothing
\* can be imported, and the catalog is unchanged.
C21_FailedScrapeOffersNothing ==
  [][(lastOp'.op = "scrape" /\ ScrapeFailed(lastOp'.outcome)) =>
       /\ phase' = "running"
       /\ ~HasPreview(rateForm'.previewItems)
       /\ ~IsJsonNull(rateForm'.previewItems)
       /\ sorData' = sorData]_vars

\* the two calls have gone equally far
SameProgress ==
  /\ build.pc = twin.b.pc
  /\ build.i = twin.b.i
  /\ Len(build.parsed) = Len(twin.b.parsed)
  /\ Len(build.results) = Len(twin.b.results)

\* the candidates for which a matcher request has been made
Requested(b) ==
  IF b.startCatalog = <<>> THEN {}
  ELSE { k \in DOMAIN b.parsed : k < b.i \/ (k = b.i /\ b.pc = "match") }

\* C22: two calls of the same build on the same catalog and the same matcher
\* answers, whose candidates differ at most in their estimated rates, go
\* equally far, make the same matcher requests and give items with the same
\* matched records, statuses and line amounts, and the same grand total.
C22_EstimateIsAdvisory ==
  (twin.variant = variant /\ build.pc # "idle") =>
    /\ SameProgress
    /\ build.matcherCalls = twin.b.matcherCalls
    /\ build.sent = twin.b.sent
    /\ Requested(build) = Requested(twin.b)
    /\ \A k \in Requested(build) :
         MatcherRequest(build.parsed[k], build.sorData)
           = MatcherRequest(twin.b.parsed[k], twin.b.sorData)
    /\ \A k \in DOMAIN build.results :
         /\ build.results[k].matchedRate = twin.b.results[k].matchedRate
         /\ build.results[k].status = twin.b.results[k].status
         /\ LineAmount(build.results[k]) = LineAmount(twin.b.results[k])
    /\ CalculateTotal(build.results) = CalculateTotal(twin.b.results)

\* both calls have ended, the two lists differ in an estimated rate, and the
\* item concerned has a matched record and a line amount
C22_Witness ==
  /\ twin.variant = variant
  /\ Done
  /\ items = build.results
  /\ \E k \in DOMAIN items :
       /\ items[k].estimatedRate # twin.b.results[k].estimatedRate
       /\ items[k].matchedRate # None
       /\ LineAmount(items[k]) # 0
       /\ CalculateTotal(items) # 0

\* the items the tender processor holds: those shown and those of the
\* running call
HeldItems ==
  { items[k] : k \in DOMAIN items } \cup { build.results[k] : k \in DOMAIN build.results }

\* C23: every tender item held by the tender processor has a matched record
\* exactly when its status is "matched" or "review", has none exactly when
\* its status is "no-match", and never has the status "pending".
C23_StatusAgreesWithRecord ==
  \A it \in HeldItems :
    /\ it.status \in {"matched", "review", "no-match"}
    /\ (it.matchedRate # None) <=> (it.status \in {"matched", "review"})
    /\ (it.matchedRate = None) <=> (it.status = "no-match")

\* a quotation is shown with a matched item and an item without a record
C23_Witness ==
  /\ Done
  /\ Len(items) = 2
  /\ items[1].status = "matched"
  /\ items[1].matchedRate # None
  /\ items[2].status = "no-match"
  /\ items[2].matchedRate = None

\* C25: when the matcher answers with an identifier that belongs to no
\* record of the catalog the call uses, the candidate's item has no matched
\* record, the status "no-match" and the line amount 0.
C25_StaleIdIsNoMatch ==
  (/\ build.answer = "answered"
   /\ build.matchedId # None
   /\ The(build.matchedId) \notin IdsOf(build.sorData)) =>
    /\ Len(build.results) = build.i - 1
    /\ build.results[build.i - 1].matchedRate = None
    /\ build.results[build.i - 1].status = "no-match"
    /\ LineAmount(build.results[build.i - 1]) = 0

\* a quotation is shown whose second item got the identifier of no record,
\* from a catalog that holds a record
C25_Witness ==
  /\ Done
  /\ Len(items) = 2
  /\ build.sorData # <<>>
  /\ build.answer = "answered"
  /\ build.matchedId # None
  /\ The(build.matchedId) \notin IdsOf(build.sorData)
  /\ items[1].matchedRate # None
  /\ items[2].status = "no-match"

\* C26: the item list shown is empty, or it is the whole result of a call
\* that has ended, one item per extracted candidate; the items of a call that
\* is still running or that was ended by an exception are never shown.
C26_NoPartialResults ==
  \/ items = <<>>
  \/ /\ Done
     /\ items = build.results
     /\ Len(items) = Len(build.parsed)

\* a call holds the first of two items and waits for the matcher, and
\* nothing is shown
C26_Witness ==
  /\ build.pc = "match"
  /\ Len(build.parsed) = 2
  /\ Len(build.results) = 1
  /\ processing
  /\ items = <<>>

\* the text is a number: digits, with or without a minus sign before them
IsNumberText(s) ==
  LET body == IF s # <<>> /\ Head(s) = "-" THEN Tail(s) ELSE s
  IN body # <<>> /\ DigitPrefix(body) = body

C27_StorageMirrorsCatalog ==
  (lastOp.op \in {"add", "bulk", "update", "remove"}) =>
    /\ storage # None
    /\ ~JsonParse(The(storage)).throws
    /\ JsonParse(The(storage)).value = ArrayValue(sorData)

\* a record was removed from a stored catalog of three, and the storage
\* holds the two that are left
C27_Witness ==
  /\ lastOp.op = "remove"
  /\ Len(sorData) = 2
  /\ sorData[1].id # sorData[2].id
  /\ storage # None
  /\ JsonParse(The(storage)).value = ArrayValue(sorData)

\* C28: from the mount of the application to the first action of the user,
\* a storage that held the text of a non-empty list of records still holds
\* a text that parses to these records, and once the application has
\* started they are the catalog in memory.
C28_StartupKeepsStorage ==
  (lastOp.op = "load" /\ IsRecordList(lastOp.saved)) =>
    /\ storage # None
    /\ The(storage).kind = "array"
    /\ Len(The(storage).elems) >= Len(The(lastOp.saved).elems)
    /\ JsonParse(The(storage)) = JsonParse(The(lastOp.saved))
    /\ (phase = "running" => ArrayValue(sorData) = JsonParse(The(lastOp.saved)).value)

\* C29: handleProcess of src/index.tsx and of part_001, run on the same
\* text, the same catalog and the same extractor and matcher answers, go
\* equally far and give lists of the same length whose items agree in name,
\* quantity, requested scope, estimated rate, matched record and line
\* amount; the statuses differ exactly for the items whose matched record
\* has the candidate's name ignoring case, where index.tsx gives "review"
\* and part_001 gives "matched".
C29_VariantsDifferInStatusOnly ==
  (/\ variant = "index"
   /\ twin.variant = "part_001"
   /\ build.pc # "idle"
   /\ twin.b.parsed = build.parsed) =>
    /\ SameProgress
    /\ (Done => items = build.results)
    /\ \A k \in DOMAIN build.results :
         LET a == build.results[k]
             b == twin.b.results[k]
             sameName == /\ a.matchedRate # None
                         /\ EqualIgnoringCase(The(a.matchedRate).name, a.name)
         IN /\ a.name = b.name
            /\ a.quantity = b.quantity
            /\ a.requestedScope = b.requestedScope
            /\ a.estimatedRate = b.estimatedRate
            /\ a.matchedRate = b.matchedRate
            /\ LineAmount(a) = LineAmount(b)
            /\ (a.status # b.status) <=> sameName
            /\ sameName => (a.status = "review" /\ b.status = "matched")

\* both calls have ended with two items: the first matched to a record whose
\* name differs from the candidate's in case only, on which the statuses
\* differ, the second to a record of another name, on which they agree
C29_Witness ==
  /\ variant = "index"
  /\ twin.variant = "part_001"
  /\ Done
  /\ twin.b.pc = "done"
  /\ twin.b.parsed = build.parsed
  /\ Len(items) = 2
  /\ items[1].matchedRate # None
  /\ items[1].name # The(items[1].matchedRate).name
  /\ items[1].status = "review"
  /\ twin.b.results[1].status = "matched"
  /\ items[2].matchedRate # None
  /\ items[2].status = "review"
  /\ twin.b.results[2].status = "review"

====
